---------------------------- MODULE Spec2Model ----------------------------
(***************************************************************************)
(* State-machine model of freqdemod/demodulate.py (class Signal).          *)
(*                                                                         *)
(* The state is the HDF5 container self.f of one Signal object: a map from *)
(* dataset names to their contents (the data array plus the attributes the *)
(* later stages read), together with the last stage call and how it ended  *)
(* (returned, or the exception it raised).  One action per public method.  *)
(* A method that raises half-way keeps the datasets it had already         *)
(* created, exactly as the h5py container does.                            *)
(*                                                                         *)
(* Numbers.  Times are integers in units of one tick; the sample period dt *)
(* is a positive number of ticks.  A real number is a sequence of integers *)
(* r[1..L]: the coefficients of r[1] + r[2] c + ... + r[L] c^(L-1), c the  *)
(* primitive L-th root of unity used by the Blackman taper (L = 1 for a    *)
(* plain integer).  A complex number is a sequence z[1..m] of reals: the   *)
(* coefficients of 1, w, ..., w^(m-1), w = exp(2 pi i / m), m the          *)
(* transform length.  Arrays that carry a common denominator store it in   *)
(* the field den.  The report list (self.report) is not modelled.          *)
(***************************************************************************)
EXTENDS Integers, Sequences, FiniteSets, TLC

\* ------------------------------------------------------------------ bounds
\* the whole chain: signal lengths 0..MaxN, sample values up to MaxVal*MaxN,
\* taper and dead times 0..MaxTw and 0..MaxTd ticks
MaxN == 3
MaxVal == 1
MaxTw == 1
MaxTd == 1
\* the time-domain stages alone: signal lengths 0..MaxLen, times 0..MaxT ticks
MaxLen == 7
MaxT == 5
\* the fits: signal lengths 2..MaxFitN, chunk durations 0..MaxChunk ticks
MaxFitN == 5
MaxChunk == 6
\* sample periods, in ticks
DtSet == {2}
FitDtSet == {2, 3}

\* ----------------------------------------------------------- dataset names
Y == "y"
X == "x"
MaskBinarate == "workup/time/mask/binarate"
XBinarated == "workup/time/x_binarated"
Window == "workup/time/window/cyclicize"
Freq == "workup/freq/freq"
FT == "workup/freq/FT"
Hc == "workup/freq/filter/Hc"
Bp == "workup/freq/filter/bp"
MaskRippleless == "workup/time/mask/rippleless"
XRippleless == "workup/time/x_rippleless"
Z == "workup/time/z"
P == "workup/time/p"
A == "workup/time/a"
FitX == "workup/fit/x"
FitY == "workup/fit/y"
FitExp == "workup/fit/exp"
FitExpCalc == "workup/fit/exp/y_calc"
FitExpResid == "workup/fit/exp/y_resid"

\* f, call, result: the container of the Signal being addressed, the last stage
\* call made on it and how that call ended; attrs: the root attributes of that
\* container; other, driver: a second Signal and the position of the program that
\* drives both (only in SpecTwin)
VARIABLES f, call, result, attrs, other, driver

vars == <<f, call, result, attrs, other, driver>>

\* ----------------------------------------------------------------- helpers
Has(name) == name \in DOMAIN f

\* h5py create_dataset / __setitem__ on a fresh name
Put(g, name, val) ==
  [k \in DOMAIN g \cup {name} |-> IF k = name THEN val ELSE g[k]]

Size(name) == Len(f[name].data)

\* an array built elementwise, as the tuple of its (evaluated) elements
Arr(a) == a \o << >>

\* numpy boolean-mask indexing a[mask]
RECURSIVE Select(_, _)
Select(a, mask) ==
  IF a = << >> \/ mask = << >> THEN << >>
  ELSE IF Head(mask) THEN <<Head(a)>> \o Select(Tail(a), Tail(mask))
       ELSE Select(Tail(a), Tail(mask))

\* np.count_nonzero(mask)
CountTrue(mask) == Cardinality({i \in 1..Len(mask) : mask[i]})

\* the record of a stage call: op and its arguments (unused ones at defaults)
Call(op, mode, t, psd) == [op |-> op, mode |-> mode, t |-> t, psd |-> psd]

\* ------------------------------------------------------------------- Init
\* Signal.__init__: an empty in-memory container
NewSignal ==
  /\ f = << >>
  /\ call = Call("Signal", "", 0, FALSE)
  /\ result = "ok"

\* the root attributes written at creation: the date and time of datetime.today()
RootAttrs(today) == [date |-> today, source |-> "demodulate.py"]

\* one Signal, nothing else
Init ==
  /\ NewSignal
  /\ attrs = RootAttrs(0)
  /\ other = << >>
  /\ driver = [phase |-> "single"]

\* a call on the one Signal of a program that holds no other
Single(step) == step /\ UNCHANGED <<attrs, other, driver>>

\* ------------------------------------------------------------ load_nparray
\* variant: a time axis that starts at the time of creation
ArangeFromCreation(n, dt) == Arr([i \in 1..n |-> attrs.date + dt * (i - 1)])

\* dt * np.arange(n)
Arange(n, dt) == Arr([i \in 1..n |-> dt * (i - 1)])

\* variant: an assignment that replaces an existing dataset
load_nparray_replacing(s, dt) ==
  /\ call' = Call("load_nparray", "", dt, FALSE)
  /\ result' = "ok"
  /\ f' = Put(Put(f, X, [data |-> Arange(Len(s), dt), step |-> dt]),
              Y, [data |-> s, abscissa |-> "x"])

\* x = dt * arange(s.size) is written first, then y = s
load_nparray(s, dt) ==
  /\ call' = Call("load_nparray", "", dt, FALSE)
  /\ IF Has(X)
       THEN /\ result' = "NameExists"
            /\ f' = f
       ELSE IF Has(Y)
       THEN \* self.f['y'] = s raises after x is written
            /\ result' = "NameExists"
            /\ f' = Put(f, X, [data |-> Arange(Len(s), dt), step |-> dt])
       ELSE /\ result' = "ok"
            /\ f' = Put(Put(f, X, [data |-> Arange(Len(s), dt),
                                   step |-> dt]),
                        Y, [data |-> s, abscissa |-> "x"])

\* -------------------------------------------------------- load_hdf5_general
\* The source file holds the samples s and a time dataset dt * arange(len(s));
\* given says which of the arguments t_dataset and dt are not None. y is copied
\* first; then x is copied from the time dataset, or computed from dt, or neither
\* was given. The step of a copied time axis is its spacing (infer_timestep).
Given == {"t_dataset", "dt", "t_dataset and dt", "neither"}

load_hdf5_general(s, dt, given) ==
  /\ call' = Call("load_hdf5_general", given, dt, FALSE)
  /\ IF Has(Y) THEN result' = "NameExists" /\ f' = f
     ELSE LET withY == Put(f, Y, [data |-> s, abscissa |-> "x"])
          IN IF given = "neither"
               THEN result' = "ValueError" /\ f' = withY
             ELSE IF Has(X) THEN result' = "NameExists" /\ f' = withY
             ELSE /\ result' = "ok"
                  /\ f' = Put(withY, X, [data |-> Arange(Len(s), dt), step |-> dt])

\* ------------------------------------------------------ time_mask_binarate
Modes == {"start", "middle", "end"}

\* int(math.floor(math.log(n, 2))) for n >= 1
RECURSIVE Log2Floor(_)
Log2Floor(n) == IF n < 2 THEN 0 ELSE 1 + Log2Floor(n \div 2)

\* int(math.pow(2, k))
RECURSIVE Pow2(_)
Pow2(k) == IF k = 0 THEN 1 ELSE 2 * Pow2(k - 1)

\* n2: "nearest power of 2 to n"
N2(n) == Pow2(Log2Floor(n))

\* variant: the middle offset rounded up instead of down
NStartRoundUp(mode, n) ==
  CASE mode = "middle" -> (n - N2(n) + 1) \div 2
    [] mode = "start" -> 0
    [] mode = "end" -> n - N2(n)

\* n_start per mode; (n - n2)/2 is a true division followed by math.floor
NStart(mode, n) ==
  CASE mode = "middle" -> (n - N2(n)) \div 2
    [] mode = "start" -> 0
    [] mode = "end" -> n - N2(n)

NStop(mode, n) ==
  CASE mode = "middle" -> NStart(mode, n) + N2(n)
    [] mode = "start" -> N2(n)
    [] mode = "end" -> n

\* mask = (indices >= n_start) & (indices < n_stop), indices = arange(n)
BinarateMask(mode, n) ==
  Arr([i \in 1..n |-> (i - 1) >= NStart(mode, n) /\ (i - 1) < NStop(mode, n)])

time_mask_binarate(mode) ==
  /\ call' = Call("time_mask_binarate", mode, 0, FALSE)
  /\ IF ~Has(Y) THEN result' = "KeyError" /\ f' = f
     ELSE IF Size(Y) < 1 THEN result' = "ValueError" /\ f' = f
     ELSE IF mode \notin Modes THEN result' = "NameError" /\ f' = f
     ELSE IF Has(MaskBinarate) THEN result' = "NameExists" /\ f' = f
     ELSE LET mask == BinarateMask(mode, Size(Y))
              xb == Select(f[X].data, mask)
          IN IF Len(xb) < 2
               THEN \* x_binarated[1] raises after both datasets are created
                    /\ result' = "IndexError"
                    /\ f' = Put(Put(f, MaskBinarate, [data |-> mask, abscissa |-> "x"]),
                                XBinarated, [data |-> xb])
               ELSE /\ result' = "ok"
                    /\ f' = Put(Put(f, MaskBinarate, [data |-> mask, abscissa |-> "x"]),
                                XBinarated, [data |-> xb, initial |-> xb[1],
                                             step |-> xb[2] - xb[1]])

\* --------------------------------------------------- time_window_cyclicize
\* int(math.ceil((1.0*t)/(1.0*dt))): window width in points
Ceil(t, dt) == -((-t) \div dt)

Delta(a, b) == IF a = b THEN 1 ELSE 0

\* the real number 1 over the denominator WeightDen, as a real with L coefficients
WeightDen == 100

OneL(L) == Arr([e \in 1..L |-> WeightDen * Delta(e, 1)])

\* np.blackman(M)[k], times WeightDen:
\*   0.42 - 0.5 cos(2 pi k/(M-1)) + 0.08 cos(4 pi k/(M-1)),
\* with cos(2 pi j/L) = (c^j + c^-j)/2, c = exp(2 pi i/L), L = M-1
BlackmanAt(k, M) ==
  LET L == M - 1
  IN Arr([e \in 1..L |->
        42 * Delta(e - 1, 0)
        - 25 * (Delta(e - 1, k % L) + Delta(e - 1, (-k) % L))
        + 4 * (Delta(e - 1, (2 * k) % L) + Delta(e - 1, (-2 * k) % L))])

\* np.blackman(M): empty for M < 1, ones(1) for M = 1
Blackman(M) ==
  IF M < 1 THEN << >>
  ELSE IF M = 1 THEN <<OneL(1)>>
  ELSE Arr([k \in 1..M |-> BlackmanAt(k - 1, M)])

\* number of coefficients of the weights of a taper of half-width ww
WeightL(ww) == IF ww < 1 THEN 1 ELSE 2 * ww - 1

\* a[0:ww] and a[-ww:] of a Python sequence, ww >= 0
FirstN(a, ww) == SubSeq(a, 1, ww)

\* variant: the falling half taken from the front of the Blackman array
LastNFromFront(a, ww) == SubSeq(a, 1, ww)

LastN(a, ww) == IF ww = 0 THEN a ELSE SubSeq(a, Len(a) - ww + 1, Len(a))

\* variant: a negative count gives an empty array instead of an exception
OnesClips(k) == FALSE

\* np.ones(k) raises ValueError for a negative k, and only then
OnesFails(k) == k < 0

\* np.concatenate([np.blackman(2*ww)[0:ww], np.ones(n-2*ww), np.blackman(2*ww)[-ww:]])
\* defined for n - 2*ww >= 0
TaperWindow(n, ww) ==
  FirstN(Blackman(2 * ww), ww)
  \o [i \in 1..(n - 2 * ww) |-> OneL(WeightL(ww))]
  \o LastN(Blackman(2 * ww), ww)

\* the length the window is designed for, and its abscissa
\* variant: the length of y, whatever the mask
WorkingLengthOfY == Size(Y)

WorkingLength == IF Has(MaskBinarate) THEN CountTrue(f[MaskBinarate].data) ELSE Size(Y)

time_window_cyclicize(tw) ==
  /\ call' = Call("time_window_cyclicize", "", tw, FALSE)
  /\ IF ~Has(MaskBinarate) /\ ~Has(Y) THEN result' = "KeyError" /\ f' = f
     ELSE LET n == WorkingLength
              abscissa == IF Has(MaskBinarate) THEN "workup/time/x_binarated" ELSE "x"
              dt == f[X].step
              ww == Ceil(tw, dt)
          IN IF OnesFails(n - 2 * ww) THEN result' = "ValueError" /\ f' = f
             ELSE IF Has(Window) THEN result' = "NameExists" /\ f' = f
             ELSE /\ result' = "ok"
                  /\ f' = Put(f, Window, [data |-> TaperWindow(n, ww),
                                          den |-> WeightDen,
                                          abscissa |-> abscissa,
                                          t_window |-> tw,
                                          t_window_actual |-> ww * dt])

\* ---------------------------------------------------- time_mask_rippleless
\* variant: the upper comparison not strict
RipplelessMaskInclusive(n, ww) == Arr([i \in 1..n |-> (i - 1) >= ww /\ (i - 1) <= n - ww])

\* mask = (indices >= ww) & (indices < n - ww), indices = arange(n)
RipplelessMask(n, ww) == Arr([i \in 1..n |-> (i - 1) >= ww /\ (i - 1) < n - ww])

time_mask_rippleless(td) ==
  /\ call' = Call("time_mask_rippleless", "", td, FALSE)
  /\ IF ~Has(X) THEN result' = "KeyError" /\ f' = f
     ELSE LET dt == f[X].step
              ww == Ceil(td, dt)
              x == IF Has(MaskBinarate) THEN f[XBinarated].data ELSE f[X].data
              abscissa == IF Has(MaskBinarate) THEN "/workup/time/x_binarated" ELSE "x"
              mask == RipplelessMask(Len(x), ww)
              xr == Select(x, mask)
          IN IF Has(MaskRippleless) THEN result' = "NameExists" /\ f' = f
             ELSE IF Len(xr) < 2
               THEN \* x_rippleless[0] or x_rippleless[1] raises after both
                    \* datasets are created
                    /\ result' = "IndexError"
                    /\ f' = Put(Put(f, MaskRippleless, [data |-> mask, abscissa |-> abscissa]),
                                XRippleless, [data |-> xr])
               ELSE /\ result' = "ok"
                    /\ f' = Put(Put(f, MaskRippleless, [data |-> mask, abscissa |-> abscissa]),
                                XRippleless, [data |-> xr, initial |-> xr[1],
                                              step |-> xr[2] - xr[1]])

\* ------------------------------------------------------- exact arithmetic
\* reals: coefficient sequences of equal length L
RZero(L) == Arr([e \in 1..L |-> 0])
RAdd(a, b) == Arr([e \in 1..Len(a) |-> a[e] + b[e]])
RScale(c, a) == Arr([e \in 1..Len(a) |-> c * a[e]])

RECURSIVE RSum(_, _)
RSum(rs, L) == IF rs = << >> THEN RZero(L) ELSE RAdd(Head(rs), RSum(Tail(rs), L))

\* integer polynomials, coefficient of x^(i-1) at index i
XnMinus1(m) == [i \in 1..(m + 1) |-> IF i = 1 THEN -1 ELSE IF i = m + 1 THEN 1 ELSE 0]

\* quotient of a by the monic polynomial b (the division is exact where used)
RECURSIVE PolyQuot(_, _)
PolyQuot(a, b) ==
  IF Len(a) < Len(b) THEN << >>
  ELSE LET c == a[Len(a)]
           d == Len(a) - Len(b)
           rest == [i \in 1..(Len(a) - 1) |->
                      IF i > d THEN a[i] - c * b[i - d] ELSE a[i]]
       IN PolyQuot(rest, b) \o <<c>>

\* the m-th cyclotomic polynomial: (x^m - 1) divided by those of the proper divisors
RECURSIVE Cyclo(_)
RECURSIVE CycloFrom(_, _, _)
CycloFrom(p, m, d) ==
  IF d >= m THEN p
  ELSE IF m % d = 0 THEN CycloFrom(PolyQuot(p, Cyclo(d)), m, d + 1)
  ELSE CycloFrom(p, m, d + 1)
Cyclo(m) == CycloFrom(XnMinus1(m), m, 1)

\* the cyclotomic polynomials of every transform length of the model
CycloTable == [m \in 1..(MaxN + MaxFitN) |-> Cyclo(m)]

\* a complex number (coefficients of 1, w, w^2, ...) reduced modulo the minimal
\* polynomial phi of w: the unique representation with Len(phi) - 1 coefficients
RECURSIVE CReduce(_, _, _)
CReduce(c, phi, L) ==
  LET deg == Len(phi) - 1
  IN IF Len(c) <= deg
       THEN c \o [i \in 1..(deg - Len(c)) |-> RZero(L)]
       ELSE LET lead == c[Len(c)]
                d == Len(c) - 1 - deg
            IN CReduce(Arr([i \in 1..(Len(c) - 1) |->
                          IF i > d THEN RAdd(c[i], RScale(-phi[i - d], lead)) ELSE c[i]]),
                       phi, L)

\* c * w^r for a complex c with m coefficients, unreduced (w^m = 1)
CRotate(c, r) == Arr([e \in 1..Len(c) |-> c[((e - 1 - r) % Len(c)) + 1]])

\* np.fft.fft(s): X[k] = sum_n s[n] w^(-k n), w = exp(2 pi i/m), m = len(s) >= 1
DFT(s, L) ==
  LET m == Len(s)
  IN Arr([k \in 1..m |->
        Arr([e \in 1..m |->
           RSum(Arr([n \in 1..m |-> IF (-(k - 1) * (n - 1)) % m = e - 1
                                       THEN s[n] ELSE RZero(L)]), L)])])

\* np.fft.ifft(S) times m: z[j] = sum_k S[k] w^(j k), each S[k] with m coefficients;
\* the division by m goes to the common denominator
RECURSIVE CSum(_, _, _)
CSum(cs, m, L) ==
  IF cs = << >> THEN Arr([e \in 1..m |-> RZero(L)])
  ELSE LET rest == CSum(Tail(cs), m, L)
       IN Arr([e \in 1..m |-> RAdd(Head(cs)[e], rest[e])])

IDFTm(S, L) ==
  LET m == Len(S)
      phi == CycloTable[m]
  IN Arr([j \in 1..m |->
        CReduce(CSum(Arr([k \in 1..m |-> CRotate(S[k], (j - 1) * (k - 1))]), m, L),
                phi, L)])

\* np.fft.fftshift(a) = roll(a, n//2); np.fft.ifftshift(a) = roll(a, -(n//2))
fftshift(a) == Arr([i \in 1..Len(a) |-> a[((i - 1 - Len(a) \div 2) % Len(a)) + 1]])
ifftshift(a) == Arr([i \in 1..Len(a) |-> a[((i - 1 + Len(a) \div 2) % Len(a)) + 1]])

\* variant: the Nyquist bin of an even n counted as positive
fftfreqNyquistUp(n) == Arr([i \in 1..n |-> IF i - 1 <= n \div 2 THEN i - 1 ELSE i - 1 - n])

\* np.fft.fftfreq(n, d) times n*d: 0, 1, ..., (n-1)//2, -(n//2), ..., -1
fftfreq(n) == Arr([i \in 1..n |-> IF i - 1 <= (n - 1) \div 2 THEN i - 1 ELSE i - 1 - n])

\* ---------------------------------------------------------------------- fft
\* numpy broadcasting of two 1-D arrays
Broadcastable(la, lb) == la = lb \/ la = 1 \/ lb = 1

\* the working array: y, masked if a binarate mask exists
MaskedSignal ==
  IF Has(MaskBinarate) THEN Select(f[Y].data, f[MaskBinarate].data) ELSE f[Y].data

\* w*s as reals over the denominator of w; without a window, s itself
Windowed(s) ==
  IF Has(Window)
    THEN LET w == f[Window].data
             n == IF Len(w) > Len(s) THEN Len(w) ELSE Len(s)
         IN Arr([i \in 1..n |-> RScale(s[IF Len(s) = 1 THEN 1 ELSE i],
                                       w[IF Len(w) = 1 THEN 1 ELSE i])])
    ELSE Arr([i \in 1..Len(s) |-> <<s[i]>>])

WindowedDen == IF Has(Window) THEN f[Window].den ELSE 1

\* number of coefficients of the reals of the working array
WorkingL == IF Has(Window) /\ f[Window].data # << >> THEN Len(f[Window].data[1]) ELSE 1

\* dt * np.fft.fftshift(np.fft.fft(s))
LinearSpectrum(s, dt, L) ==
  LET S == fftshift(DFT(s, L))
  IN Arr([k \in 1..Len(S) |-> Arr([e \in 1..Len(S[k]) |-> RScale(dt, S[k][e])])])

\* (dt / len(s)) * abs(np.fft.fftshift(np.fft.fft(s)))**2: each value is kept as the
\* bin whose squared modulus it is, times num / den
PowerSpectrum(s, dt, L) ==
  LET S == fftshift(DFT(s, L))
  IN Arr([k \in 1..Len(S) |-> [abs2 |-> S[k], weight |-> 1]])

fft(psd) ==
  /\ call' = Call("fft", "", 0, psd)
  /\ IF ~Has(Y) THEN result' = "KeyError" /\ f' = f
     ELSE LET s0 == MaskedSignal
          IN IF Has(Window) /\ ~Broadcastable(Len(f[Window].data), Len(s0))
               THEN result' = "ValueError" /\ f' = f
             ELSE LET s == Windowed(s0)
                      m == Len(s)
                      dt == f[X].step
                      L == WorkingL
                      freq == fftshift(fftfreq(m))
                      keep == [i \in 1..m |-> freq[i] >= 0]
                      freqOut == IF psd THEN Select(freq, keep) ELSE freq
                      sFT == IF psd THEN Select(PowerSpectrum(s, dt, L), keep)
                             ELSE LinearSpectrum(s, dt, L)
                      ftRec == IF psd
                                 THEN [data |-> sFT, num |-> dt,
                                       den |-> m * WindowedDen * WindowedDen,
                                       unit |-> "unit^2/Hz", abscissa |-> Freq]
                                 ELSE [data |-> sFT, den |-> WindowedDen,
                                       unit |-> "unit/Hz", abscissa |-> Freq]
                  IN IF ~Has(X) THEN result' = "KeyError" /\ f' = f
                     ELSE IF m < 1 \* np.fft.fft of an empty array raises
                       THEN result' = "ValueError" /\ f' = f
                     ELSE IF Has(Freq) THEN result' = "NameExists" /\ f' = f
                     ELSE IF Len(freqOut) < 2
                       THEN \* freq[1] raises after workup/freq/freq is created
                            /\ result' = "IndexError"
                            /\ f' = Put(f, Freq, [data |-> freqOut, den |-> 1000 * m * dt])
                       ELSE /\ result' = "ok"
                            /\ f' = Put(Put(f, Freq, [data |-> freqOut, den |-> 1000 * m * dt,
                                                      initial |-> freqOut[1],
                                                      step |-> freqOut[2] - freqOut[1]]),
                                        FT, ftRec)

\* ----------------------------------------------- freq_filter_Hilbert_complex
\* variant: the last comparison not strict
HilbertWeightInclusive(fr) == 0 * (IF fr < 0 THEN 1 ELSE 0) + 1 * (IF fr = 0 THEN 1 ELSE 0)
                              + 2 * (IF fr >= 0 THEN 1 ELSE 0)

\* 0.0*(freq < 0) + 1.0*(freq == 0) + 2.0*(freq > 0)
HilbertWeight(fr) == 0 * (IF fr < 0 THEN 1 ELSE 0) + 1 * (IF fr = 0 THEN 1 ELSE 0)
                     + 2 * (IF fr > 0 THEN 1 ELSE 0)

freq_filter_Hilbert_complex ==
  /\ call' = Call("freq_filter_Hilbert_complex", "", 0, FALSE)
  /\ IF ~Has(Freq) THEN result' = "KeyError" /\ f' = f
     ELSE IF Has(Hc) THEN result' = "NameExists" /\ f' = f
     ELSE /\ result' = "ok"
          /\ f' = Put(f, Hc, [data |-> [i \in 1..Size(Freq) |->
                                          HilbertWeight(f[Freq].data[i])],
                              abscissa |-> Freq])

\* ------------------------------------------------------------ freq_filter_bp
\* the transform lengths m for which 2 cos(2 pi d/m) is an integer for every d: the
\* squared modulus of a bin is then an integer and np.argmax is computed exactly
RationalLens == {1, 2, 3, 4, 6}

\* 2 cos(2 pi d/m), m in RationalLens
TwoCos(m, d) ==
  LET r == d % m
  IN CASE m = 1 -> 2
       [] m = 2 -> IF r = 0 THEN 2 ELSE -2
       [] m = 3 -> IF r = 0 THEN 2 ELSE -1
       [] m = 4 -> IF r = 0 THEN 2 ELSE IF r = 2 THEN -2 ELSE 0
       [] m = 6 -> IF r = 0 THEN 2 ELSE IF r = 3 THEN -2
                   ELSE IF r = 1 \/ r = 5 THEN 1 ELSE -1

\* sum of the integers of a sequence
RECURSIVE SumSeq(_)
SumSeq(a) == IF a = << >> THEN 0 ELSE Head(a) + SumSeq(Tail(a))

\* twice abs(z)**2 for z = sum of z[e][1] w^(e-1), w = exp(2 pi i/m), m = Len(z),
\* with integer coefficients
Abs2x2(z) ==
  LET m == Len(z)
  IN SumSeq([e \in 1..m |-> SumSeq([d \in 1..m |-> z[e][1] * z[d][1] * TwoCos(m, e - d)])])

\* the order of the entries of FTrh = Hc*abs(FT): a number that grows with FTrh[k]
\* (its square for a linear spectrum, itself for a power spectrum, up to a
\* positive factor common to all k)
PeakKey(ft, k, h) ==
  IF ft.unit = "unit/Hz" THEN h * h * Abs2x2(ft.data[k])
  ELSE h * ft.data[k].weight * Abs2x2(ft.data[k].abs2)

\* np.argmax(a): the first position of the largest entry (1-based)
ArgMax(a) == CHOOSE i \in 1..Len(a) :
               /\ \A j \in 1..Len(a) : a[j] <= a[i]
               /\ \A j \in 1..(i - 1) : a[j] < a[i]

\* fc = freq[np.argmax(FTrh)], as a position of the frequency axis
PeakIndex == ArgMax([k \in 1..Size(FT) |-> PeakKey(f[FT], k, f[Hc].data[k])])

\* filter weights: the exact numbers 0 and 1, and the values kept as the terms
\* 1/(1 + (a/b)^c) (brick), exp(-(a/b)^2) (gauss) and sin(pi a/b) (sin)
Weight(kind, a, b, c) == [kind |-> kind, a |-> a, b |-> b, c |-> c]
W0 == Weight("int", 0, 1, 0)
W1 == Weight("int", 1, 1, 0)

Abs(v) == IF v < 0 THEN -v ELSE v

\* 1.0/(1.0 + np.power(abs(freq_scaled), order)) at d bins from fc, bandwidth bw
\* bins, order >= 1: exactly 1 at d = 0
BrickWall(d, bw, order) == IF d = 0 THEN W1 ELSE Weight("brick", Abs(d), bw, order)

\* np.exp(-1 * np.power(freq_scaled, 2.0)): exactly 1 at d = 0
Gaussian(d, bw) == IF d = 0 THEN W1 ELSE Weight("gauss", Abs(d), bw, 0)

\* np.sin(np.linspace(0, np.pi, cnt))[j]: sin(pi j/(cnt-1)), exactly 0 at j = 0
SinLinspace(j, cnt) == IF j = 0 THEN W0 ELSE Weight("sin", j, cnt - 1, 0)

\* variant: the band taken twice as wide
InBandDouble(fr, fc, bw) == fr >= fc - 2 * bw /\ fr <= fc + 2 * bw

\* sub_index = (freq >= -1.0*bw + fc) & (freq <= bw + fc)
InBand(fr, fc, bw) == fr >= fc - bw /\ fr <= fc + bw

\* bp = np.zeros(freq.shape); bp[sub_indices] = np.sin(np.linspace(0, np.pi, cnt))
Cosine(freq, fc, bw) ==
  LET sub == {k \in 1..Len(freq) : InBand(freq[k], fc, bw)}
      rank(k) == Cardinality({j \in sub : j < k})
  IN [k \in 1..Len(freq) |->
        IF k \in sub THEN SinLinspace(rank(k), Cardinality(sub)) ELSE W0]

Styles == {"brick wall", "cosine", "gaussian"}

\* variant: an unknown style falls through to the default filter
UnrecognizedNever(style) == FALSE

\* no branch of the if/elif chain assigns bp: the else branch only prints
Unrecognized(style) == style \notin Styles

\* the filter of a recognised style over the frequency axis freq (in bins), centre fc
BandPass(style, freq, fc, bw, order) ==
  IF style = "cosine" THEN Cosine(freq, fc, bw)
  ELSE IF style = "gaussian" THEN [k \in 1..Len(freq) |-> Gaussian(freq[k] - fc, bw)]
  ELSE [k \in 1..Len(freq) |-> BrickWall(freq[k] - fc, bw, order)]

\* bw is given in bins of the frequency axis (1/(m dt) Hz each), bw >= 1
freq_filter_bp(bw, order, style) ==
  /\ call' = Call("freq_filter_bp", style, bw, FALSE)
  /\ IF ~Has(Freq) \/ ~Has(Hc) \/ ~Has(FT) THEN result' = "KeyError" /\ f' = f
     ELSE IF Unrecognized(style) THEN result' = "NameError" /\ f' = f
     ELSE IF Has(Bp) THEN result' = "NameExists" /\ f' = f
     ELSE /\ result' = "ok"
          /\ f' = Put(f, Bp, [data |-> BandPass(style, f[Freq].data,
                                                f[Freq].data[PeakIndex], bw, order),
                              abscissa |-> Freq])

\* --------------------------------------------------------------------- ifft
IsLinear(ft) == ft.unit = "unit/Hz"

\* multiply spectrum value v by the integer filter weight h
Weighted(ft, v, h) ==
  IF IsLinear(ft) THEN Arr([e \in 1..Len(v) |-> RScale(h, v[e])])
  ELSE [abs2 |-> v.abs2, weight |-> h * v.weight]

\* s = FT / step, times Hc if present: the values, over FilteredDen
Filtered ==
  LET ft == f[FT]
  IN Arr([k \in 1..Len(ft.data) |->
        Weighted(ft, ft.data[k], IF Has(Hc) THEN f[Hc].data[k] ELSE 1)])

FilteredDen == f[FT].den * f[X].step

\* s = s*self.f['workup/freq/filter/bp'], if that filter exists: each value kept
\* with its weight
BandPassed(s) ==
  IF Has(Bp) THEN Arr([k \in 1..Len(s) |-> [value |-> s[k], bp |-> f[Bp].data[k]]])
  ELSE s

\* np.fft.ifft(np.fft.ifftshift(s)): values over den * len(s).  A power spectrum,
\* and a spectrum times a bandpass filter, is not a sum of powers of w: its
\* transform is kept as the term it is.
Inverse(s, L) ==
  IF IsLinear(f[FT]) /\ ~Has(Bp) THEN IDFTm(ifftshift(s), L)
  ELSE Arr([j \in 1..Len(s) |-> [ifft |-> ifftshift(s), index |-> j - 1]])

SpectrumL == IF IsLinear(f[FT]) THEN Len(f[FT].data[1][1]) ELSE 1

\* variant: a missing spectrum read as an empty one
IfftMissingAsEmpty ==
  /\ result' = "ok"
  /\ f' = Put(Put(Put(f, Z, [data |-> << >>, den |-> 1, abscissa |-> "x"]),
                   P, [data |-> << >>, unwrapped |-> TRUE, abscissa |-> "x"]),
               A, [data |-> << >>, den |-> 1, abscissa |-> "x"])

\* self.f['workup/freq/FT'] on a container without a spectrum: KeyError
IfftMissing ==
  /\ result' = "KeyError"
  /\ f' = f

ifft ==
  /\ call' = Call("ifft", "", 0, FALSE)
  /\ IF ~Has(FT) THEN IfftMissing
     ELSE LET s == BandPassed(Filtered)
              sIFT == Inverse(s, SpectrumL)
              den == FilteredDen * Len(s)
          IN IF Has(MaskRippleless) /\ Len(f[MaskRippleless].data) # Len(s)
               THEN result' = "IndexError" /\ f' = f
             ELSE IF Has(Z) THEN result' = "NameExists" /\ f' = f
             ELSE LET zs == IF Has(MaskRippleless)
                              THEN Select(sIFT, f[MaskRippleless].data) ELSE sIFT
                      abscissa == IF Has(MaskRippleless) THEN "workup/time/x_rippleless"
                                  ELSE IF Has(MaskBinarate) THEN "/workup/time/x_binarated"
                                  ELSE "x"
                  IN /\ result' = "ok"
                     /\ f' = Put(Put(Put(f,
                               Z, [data |-> zs, den |-> den, abscissa |-> abscissa]),
                               P, [data |-> [i \in 1..Len(zs) |-> [angle |-> zs[i]]],
                                   unwrapped |-> TRUE, abscissa |-> abscissa]),
                               A, [data |-> [i \in 1..Len(zs) |-> [abs |-> zs[i]]],
                                   den |-> den, abscissa |-> abscissa])

\* ---------------------------------------------------------------- fit_phase
\* int(round(t/dt)) for t >= 0, round of Python 3: a tie goes to the even integer
Round(t, dt) ==
  LET q == t \div dt
      r == t % dt
  IN IF 2 * r < dt THEN q
     ELSE IF 2 * r > dt THEN q + 1
     ELSE IF q % 2 = 0 THEN q ELSE q + 1

\* the dataset an 'abscissa' attribute names: h5py ignores a leading "/"
Resolve(a) == IF a = "/workup/time/x_binarated" THEN XBinarated ELSE a

\* variant: the last n entries, a[-n:]
TakeLast(a, n) == SubSeq(a, (IF n < Len(a) THEN Len(a) - n ELSE 0) + 1, Len(a))

\* a[0:n], n >= 0
Take(a, n) == SubSeq(a, 1, IF n < Len(a) THEN n ELSE Len(a))

\* a.reshape((rows, cols)): row k (1-based) of an array of rows*cols entries
Row(a, k, cols) == SubSeq(a, (k - 1) * cols + 1, k * cols)

\* variant: 2n+1 in place of 2n-1
SXXPlus(dt, n) == (dt * dt * n * (n - 1) * (2 * n + 1)) \div 6

\* SX = dt*0.50*(n-1)*n and SXX = dt**2*(1/6.0)*n*(n-1)*(2*n-1): both integers
SX(dt, n) == (dt * (n - 1) * n) \div 2
SXX(dt, n) == (dt * dt * n * (n - 1) * (2 * n - 1)) \div 6

\* the slope of one chunk with times xs and phases ys, both of length n:
\*   (n*SXY - SX*SY)/(n*SXX - SX*SX), SY = sum(ys - ys[0]), SXY = sum((xs - xs[0])*(ys - ys[0]))
\* kept as the coefficients coef[i] = n*(xs[i] - xs[0]) - SX of the zero-shifted
\* phases ys[i] - ys[0], over den
Slope(xs, ys, dt) ==
  LET n == Len(ys)
  IN [coef |-> [i \in 1..n |-> n * (xs[i] - xs[1]) - SX(dt, n)],
      samples |-> ys,
      den |-> n * SXX(dt, n) - SX(dt, n) * SX(dt, n)]

\* variant: the time at the start of each chunk, x_sub[:,0]
x_sub_start(x, n_tot_chunk, n_per_chunk) ==
  [k \in 1..n_tot_chunk |-> n_per_chunk * Row(x, k, n_per_chunk)[1]]

\* np.mean(x_sub[:,:], axis=1), times n_per_chunk
x_sub_middle(x, n_tot_chunk, n_per_chunk) ==
  [k \in 1..n_tot_chunk |-> SumSeq(Row(x, k, n_per_chunk))]

fit_phase(dt_chunk_target) ==
  /\ call' = Call("fit_phase", "", dt_chunk_target, FALSE)
  /\ IF ~Has(X) \/ ~Has(P) THEN result' = "KeyError" /\ f' = f
     ELSE LET dt == f[X].step
              n == Size(P)
              n_per_chunk == Round(dt_chunk_target, dt)
          IN IF n_per_chunk = 0 THEN result' = "ZeroDivisionError" /\ f' = f
             ELSE LET n_tot_chunk == n \div n_per_chunk
                      n_total == n_per_chunk * n_tot_chunk
                      y == Take(f[P].data, n_total)
                      x == Take(f[Resolve(f[P].abscissa)].data, n_total)
                  IN IF Len(x) # n_total \* x.reshape raises
                       THEN result' = "ValueError" /\ f' = f
                     ELSE IF Has(FitX) THEN result' = "NameExists" /\ f' = f
                     ELSE /\ result' = "ok"
                          /\ f' = Put(Put(f,
                                FitX, [data |-> x_sub_middle(x, n_tot_chunk, n_per_chunk),
                                       den |-> n_per_chunk]),
                                FitY, [data |-> [k \in 1..n_tot_chunk |->
                                                   Slope(Row(x, k, n_per_chunk),
                                                         Row(y, k, n_per_chunk), dt)],
                                       abscissa |-> FitX])

\* ------------------------------------------------------------ fit_amplitude
\* What lmfit.minimize (not part of this repository) does with the amplitude data
\* is an input of the call: it returns a converged fit; or it returns without
\* having reduced the objective from the initial guess; or it returns a tau that
\* is not finite; each with or without estimated standard errors (stderr is None
\* without); or it raises. Its numbers are inputs as well: sigma, the standard
\* deviation of the residuals of the first pass, and dev, the size of the misfit
\* y_calc - y of the second pass, which alternates in sign from sample to sample.
Outcomes == {"converged", "converged, no stderr", "stalled", "stalled, no stderr",
             "tau not finite", "tau not finite, no stderr", "raised"}

\* p[...].stderr is a number
HasStderr(outcome) == outcome \in {"converged", "stalled", "tau not finite"}

\* the number of fit parameters a0, a1, tau: scipy's leastsq refuses fewer data points
NParams == 3

Sigmas == {1, 2}
Devs == {0, 1}

Misfit(dev, i) == IF i % 2 = 1 THEN dev ELSE -dev

\* fcn2min: (y_calc - y)/y_stdev, the quotient num/den
Residual(dev, sigma, i) == [num |-> Misfit(dev, i), den |-> sigma]

\* y_calc = y + y_stdev*result.residual: the sample y plus the quotient num/den
YCalc(y, sigma, residual) ==
  [i \in 1..Len(y) |-> [y |-> y[i], plus |-> [num |-> sigma * residual[i].num,
                                             den |-> residual[i].den]]]

fit_amplitude(outcome, dev, sigma) ==
  /\ call' = Call("fit_amplitude", outcome, 0, FALSE)
  /\ IF ~Has(A) THEN result' = "KeyError" /\ f' = f
     ELSE LET abscissa == f[A].abscissa
              x == f[Resolve(abscissa)].data
              y == f[A].data
              residual == [i \in 1..Len(y) |-> Residual(dev, sigma, i)]
          IN IF ~Broadcastable(Len(x), Len(y)) \* a0*np.exp(-x/tau) + a1 - y raises
               THEN result' = "ValueError" /\ f' = f
             ELSE IF Len(y) < NParams THEN result' = "TypeError" /\ f' = f
             ELSE IF outcome = "raised" THEN result' = "ValueError" /\ f' = f
             ELSE IF Has(FitExp) THEN result' = "NameExists" /\ f' = f
             ELSE IF ~HasStderr(outcome)
               THEN \* "{1:.6f}".format(..., None, ...) raises after the group is created
                    /\ result' = "TypeError"
                    /\ f' = Put(f, FitExp, [group |-> TRUE])
               ELSE /\ result' = "ok"
                    /\ f' = Put(Put(Put(f,
                          FitExp, [group |-> TRUE, abscissa |-> abscissa, ordinate |-> A,
                                   fit |-> outcome]),
                          FitExpCalc, [data |-> YCalc(y, sigma, residual),
                                       abscissa |-> abscissa]),
                          FitExpResid, [data |-> residual,
                                        abscissa |-> abscissa])

\* -------------------------------------------------------------------- Next
\* the signals loaded: ramps y[i] = a*i of every length up to MaxN (a = 0: all zero)
Signals == {[i \in 1..n |-> a * i] : n \in 0..MaxN, a \in 0..MaxVal}

Next ==
  \/ \E s \in Signals, dt \in DtSet :
       Single(load_nparray(s, dt))
  \/ \E mode \in Modes \cup {"centre"} :
       Single(time_mask_binarate(mode))
  \/ \E tw \in 0..MaxTw :
       Single(time_window_cyclicize(tw))
  \/ \E td \in 0..MaxTd :
       Single(time_mask_rippleless(td))
  \/ \E psd \in BOOLEAN :
       Single(fft(psd))
  \/ Single(freq_filter_Hilbert_complex)
  \/ Single(ifft)

Spec == Init /\ [][Next]_vars

\* the filters: signals with samples of Amps whose length is in RationalLens,
\* bandwidths of 1..MaxBw bins
Amps == {0, 1}
MaxBw == 2
Orders == {1, 50}

RECURSIVE SeqsOver(_, _)
SeqsOver(S, n) ==
  IF n = 0 THEN {<< >>} ELSE {<<v>> \o t : v \in S, t \in SeqsOver(S, n - 1)}

FilterSignals == UNION {SeqsOver(Amps, n) : n \in RationalLens}

NextFilter ==
  \/ \E s \in FilterSignals, dt \in DtSet :
       Single(load_nparray(s, dt))
  \/ \E psd \in BOOLEAN :
       Single(fft(psd))
  \/ Single(freq_filter_Hilbert_complex)
  \/ \E bw \in 1..MaxBw, order \in Orders, style \in Styles \cup {"lorentzian"} :
       Single(freq_filter_bp(bw, order, style))

SpecFilter == Init /\ [][NextFilter]_vars

\* the phase fit: the chain from a signal of 2..MaxFitN samples to the chunked
\* frequency, with and without a trim
NextFit ==
  \/ \E n \in 2..MaxFitN, dt \in FitDtSet :
       Single(load_nparray([i \in 1..n |-> i], dt))
  \/ \E td \in 0..MaxTd :
       Single(time_mask_rippleless(td))
  \/ \E psd \in BOOLEAN :
       Single(fft(psd))
  \/ Single(ifft)
  \/ \E t \in 0..MaxChunk :
       Single(fit_phase(t))
  \/ \E outcome \in Outcomes, dev \in Devs, sigma \in Sigmas :
       Single(fit_amplitude(outcome, dev, sigma))

SpecFit == Init /\ [][NextFit]_vars

\* two Signals, the second created at a time of Clock, driven in lockstep: the
\* driver makes a call on one, turns to the other and makes the same call with the
\* same arguments
Clock == {0, 1}
TwinSignals == {<<1, 2, 3>>}
TwinTimes == {1}
TwinChunks == {4}

InitTwin ==
  /\ NewSignal
  /\ attrs = RootAttrs(0)
  /\ \E today \in Clock : other = [f |-> << >>, result |-> "ok", attrs |-> RootAttrs(today)]
  /\ driver = [phase |-> "first", cmd |-> << >>]

Cmd(op, s, t, mode, psd, order) ==
  [op |-> op, s |-> s, t |-> t, mode |-> mode, psd |-> psd, order |-> order]

\* the driver makes the call cmd, carried out by step, on the Signal it addresses:
\* any call on the first of the two, the same call on the second
Drive(cmd, step) ==
  /\ driver.phase \in {"first", "second"}
  /\ driver.phase = "second" => cmd = driver.cmd
  /\ step
  /\ driver' = IF driver.phase = "first" THEN [phase |-> "switch", cmd |-> cmd]
                ELSE [phase |-> "first", cmd |-> << >>]
  /\ UNCHANGED <<attrs, other>>

\* the driver turns to the other Signal
Switch ==
  /\ driver.phase = "switch"
  /\ f' = other.f
  /\ result' = other.result
  /\ attrs' = other.attrs
  /\ other' = [f |-> f, result |-> result, attrs |-> attrs]
  /\ driver' = [driver EXCEPT !.phase = "second"]
  /\ UNCHANGED call

NextTwin ==
  \/ \E s \in TwinSignals, dt \in DtSet :
       Drive(Cmd("load_nparray", s, dt, "", FALSE, 0), load_nparray(s, dt))
  \/ \E mode \in Modes :
       Drive(Cmd("time_mask_binarate", << >>, 0, mode, FALSE, 0), time_mask_binarate(mode))
  \/ \E tw \in TwinTimes :
       Drive(Cmd("time_window_cyclicize", << >>, tw, "", FALSE, 0), time_window_cyclicize(tw))
  \/ \E td \in TwinTimes :
       Drive(Cmd("time_mask_rippleless", << >>, td, "", FALSE, 0), time_mask_rippleless(td))
  \/ \E psd \in BOOLEAN :
       Drive(Cmd("fft", << >>, 0, "", psd, 0), fft(psd))
  \/ Drive(Cmd("freq_filter_Hilbert_complex", << >>, 0, "", FALSE, 0),
           freq_filter_Hilbert_complex)
  \/ \E bw \in TwinTimes, style \in Styles :
       Drive(Cmd("freq_filter_bp", << >>, bw, style, FALSE, 1),
             freq_filter_bp(bw, 1, style))
  \/ Drive(Cmd("ifft", << >>, 0, "", FALSE, 0), ifft)
  \/ \E t \in TwinChunks :
       Drive(Cmd("fit_phase", << >>, t, "", FALSE, 0), fit_phase(t))
  \/ Switch

SpecTwin == InitTwin /\ [][NextTwin]_vars

\* every stage, in any order, on one Signal
ChainSignals == {<<1, 2, 3>>, <<1, 2, 3, 4>>}

NextChain ==
  \/ \E s \in ChainSignals, dt \in DtSet :
       Single(load_nparray(s, dt))
  \/ \E mode \in Modes :
       Single(time_mask_binarate(mode))
  \/ \E tw \in TwinTimes :
       Single(time_window_cyclicize(tw))
  \/ \E td \in TwinTimes :
       Single(time_mask_rippleless(td))
  \/ \E psd \in BOOLEAN :
       Single(fft(psd))
  \/ Single(freq_filter_Hilbert_complex)
  \/ \E bw \in TwinTimes, style \in Styles :
       Single(freq_filter_bp(bw, 1, style))
  \/ Single(ifft)
  \/ \E t \in TwinChunks :
       Single(fit_phase(t))
  \/ \E outcome \in Outcomes :
       Single(fit_amplitude(outcome, 1, 2))

SpecChain == Init /\ [][NextChain]_vars

\* the time-domain stages alone, on longer signals
Ramp(n) == [i \in 1..n |-> i]

NextPrep ==
  \/ \E n \in 0..MaxLen, dt \in DtSet :
       Single(load_nparray(Ramp(n), dt))
  \/ \E mode \in Modes \cup {"centre"} :
       Single(time_mask_binarate(mode))
  \/ \E tw \in 0..MaxT :
       Single(time_window_cyclicize(tw))
  \/ \E td \in 0..MaxT :
       Single(time_mask_rippleless(td))

SpecPrep == Init /\ [][NextPrep]_vars

\* the loaders, from arrays and from a source file, and the transform after them
SourceLens == {2, 3, 4}

NextLoad ==
  \/ \E n \in SourceLens, dt \in FitDtSet, given \in Given :
       Single(load_hdf5_general(Ramp(n), dt, given))
  \/ \E n \in SourceLens, dt \in FitDtSet :
       Single(load_nparray(Ramp(n), dt))
  \/ \E psd \in BOOLEAN :
       Single(fft(psd))

SpecLoad == Init /\ [][NextLoad]_vars
\* ================================================================== claims
\* vocabulary of the statements below, independent of the stage definitions

\* the largest power of two not above n, n >= 1
LargestPow2(n) == CHOOSE p \in 1..n : (\E e \in 0..n : p = 2^e) /\ p <= n /\ n < 2 * p

\* the true entries of mask are exactly the 0-based positions lo .. hi-1
TrueOn(mask, lo, hi) == \A i \in 1..Len(mask) : mask[i] <=> (lo <= i - 1 /\ i - 1 < hi)

\* the last call was op, on a container that held the signal, and it was not
\* stopped by an output of an earlier call of the same stage
Ran(op) == call.op = op /\ Has(Y) /\ result # "NameExists"

\* the time axis a taper or a trim is designed on, and its length
AxisData == IF Has(MaskBinarate) THEN f[XBinarated].data ELSE f[X].data
AxisLen == IF Has(MaskBinarate) THEN CountTrue(f[MaskBinarate].data) ELSE Size(Y)

\* the width in points of the time t of the last call
WidthPts == CHOOSE k \in 0..call.t : k * f[X].step >= call.t /\ (k = 0 \/ (k - 1) * f[X].step < call.t)

\* ---- C1
\* C1: for every signal length n >= 1 and every mode in {start, middle, end},
\* time_mask_binarate completes and stores a mask of length n whose true entries
\* number 2^floor(log2 n) and form one contiguous run.
C1_BinarateCompletes ==
  (Ran("time_mask_binarate") /\ call.mode \in Modes /\ Size(Y) >= 1)
  => /\ result = "ok"
     /\ Has(MaskBinarate)
     /\ Len(f[MaskBinarate].data) = Size(Y)
     /\ CountTrue(f[MaskBinarate].data) = LargestPow2(Size(Y))
     /\ \E lo \in 0..Size(Y) : TrueOn(f[MaskBinarate].data, lo, lo + LargestPow2(Size(Y)))

\* ---- C2
\* C2: the mask stored by time_mask_binarate has its run of n2 = 2^floor(log2 n) true
\* entries at positions [0, n2) for "start", [floor((n-n2)/2), floor((n-n2)/2) + n2)
\* for "middle" and [n-n2, n) for "end".
C2_BinaratePosition ==
  (Ran("time_mask_binarate") /\ call.mode \in Modes /\ Has(MaskBinarate))
  => LET n == Size(Y)
         n2 == LargestPow2(n)
         mask == f[MaskBinarate].data
         half == CHOOSE h \in 0..n : 2 * h <= n - n2 /\ n - n2 < 2 * h + 2
     IN /\ Len(mask) = n
        /\ call.mode = "start" => TrueOn(mask, 0, n2)
        /\ call.mode = "middle" => TrueOn(mask, half, half + n2)
        /\ call.mode = "end" => TrueOn(mask, n - n2, n)

\* a "middle" mask of an odd surplus: entries dropped at both ends, more at the end
C2_Witness ==
  /\ Ran("time_mask_binarate") /\ call.mode = "middle" /\ result = "ok"
  /\ Size(Y) = 7
  /\ f[MaskBinarate].data = <<FALSE, TRUE, TRUE, TRUE, TRUE, FALSE, FALSE>>

C4_TaperShape ==
  Has(Window)
  => LET w == f[Window].data
         ww == f[Window].t_window_actual \div f[X].step
         m == Len(f[f[Window].abscissa].data)
         one == [e \in 1..(IF ww = 0 THEN 1 ELSE 2 * ww - 1) |-> IF e = 1 THEN f[Window].den ELSE 0]
     IN 2 * ww < m
        => /\ Len(w) = m
           /\ \A i \in 1..m : (ww < i /\ i <= m - ww) => w[i] = one
           /\ \A i \in 1..m : w[i] = w[m + 1 - i]

\* a taper with two rising points, a plateau and two falling points
C4_Witness ==
  /\ Has(Window) /\ Ran("time_window_cyclicize") /\ result = "ok"
  /\ WidthPts = 2 /\ AxisLen > 4
  /\ f[Window].data[2] # f[Window].data[1]

\* ---- C5
\* C5: time_mask_rippleless stores a mask over the n_axis points of the time axis (the
\* binarated axis if a binarate mask exists, else x) that is true exactly on
\* [ww, n_axis - ww), ww = ceil(td/dt), and a trimmed axis x_rippleless holding
\* exactly those n_axis - 2 ww values.
C5_TrimMask ==
  (Ran("time_mask_rippleless") /\ result = "ok")
  => LET n == Len(AxisData)
         ww == WidthPts
     IN /\ Len(f[MaskRippleless].data) = n
        /\ TrueOn(f[MaskRippleless].data, ww, n - ww)
        /\ Len(f[XRippleless].data) = n - 2 * ww
        /\ f[XRippleless].data = SubSeq(AxisData, ww + 1, n - ww)

\* a trim of one point at each end of a binarated axis
C5_Witness ==
  /\ Ran("time_mask_rippleless") /\ result = "ok"
  /\ Has(MaskBinarate) /\ Size(X) > Len(AxisData)
  /\ WidthPts = 1 /\ Len(f[XRippleless].data) = Len(AxisData) - 2
\* ---- C6
\* C6: time_mask_rippleless fails for every dead time td whose width ww = ceil(td/dt)
\* has 2 ww >= n_axis, and stores neither a clipped nor an empty trim mask.
C6_RefusesWideTrim ==
  (Ran("time_mask_rippleless") /\ Len(AxisData) >= 1 /\ 2 * WidthPts >= Len(AxisData))
  => (result # "ok" /\ ~Has(MaskRippleless) /\ ~Has(XRippleless))

\* ---- C7
\* C7: whenever a stage call fails, the set of named datasets of the container is
\* exactly the set that existed before the call (stated here for the calls made on
\* a loaded signal of at least two samples).
Stages == {"time_mask_binarate", "time_window_cyclicize", "fft",
           "freq_filter_Hilbert_complex", "freq_filter_bp", "time_mask_rippleless",
           "ifft", "fit_phase", "fit_amplitude"}

C7_FailureStoresNothing ==
  [][(call'.op \in Stages /\ Has(Y) /\ Size(Y) >= 2 /\ result' # "ok")
     => DOMAIN f' = DOMAIN f]_vars

\* ---- C8
\* C8: ifft called before fft has stored a spectrum fails and stores none of the
\* analytic signal z, the phase p and the amplitude a.
C8_IfftNeedsSpectrum ==
  [][(call'.op = "ifft" /\ ~Has(FT))
     => (result' # "ok" /\ f' = f /\ ~Has(Z) /\ ~Has(P) /\ ~Has(A))]_vars

\* ifft was called on a loaded signal of several samples with no spectrum
C8_Witness ==
  /\ Ran("ifft") /\ result = "KeyError"
  /\ Size(Y) >= 2 /\ ~Has(FT) /\ ~Has(Freq) /\ ~Has(Z)

\* ---- C9
\* z holds the working array s: the value j of z, over the denominator of z, is the
\* value j of s, over the denominator sden of s
HoldsArray(z, s, sden) ==
  /\ Len(z.data) = Len(s)
  /\ \A j \in 1..Len(s) :
       /\ RScale(sden, z.data[j][1]) = RScale(z.den, s[j])
       /\ \A e \in 2..Len(z.data[j]) : \A c \in 1..Len(z.data[j][e]) : z.data[j][e][c] = 0

\* fft(psd=False) has just run on a working array of length >= least, the stage has
\* stored no filter, no trim mask and no analytic signal, and ifft runs next
RoundTripStep(least) ==
  /\ call.op = "fft" /\ ~call.psd /\ result # "NameExists"
  /\ Has(Y) /\ Len(MaskedSignal) >= least
  /\ Has(Window) => Len(f[Window].data) = Len(MaskedSignal)
  /\ ~Has(Hc) /\ ~Has(Bp) /\ ~Has(MaskRippleless) /\ ~Has(Z)
  /\ call'.op = "ifft"

\* C9: for every working array s (after the optional mask and taper) of length
\* m >= 1, fft(psd=False) followed by ifft with no Hilbert filter, no bandpass filter
\* and no trim mask stores an analytic signal z equal to s.
C9_RoundTrip ==
  [][RoundTripStep(1)
     => (result' = "ok" /\ Z \in DOMAIN f'
         /\ HoldsArray(f'[Z], Windowed(MaskedSignal), WindowedDen))]_vars

\* C9 from length 2 on: the same statement for every working array of length m >= 2
C9_RoundTripFromTwo ==
  [][RoundTripStep(2)
     => (result' = "ok" /\ Z \in DOMAIN f'
         /\ HoldsArray(f'[Z], Windowed(MaskedSignal), WindowedDen))]_vars

\* ---- C10
\* C10: freq_filter_Hilbert_complex stores one weight per entry of the stored
\* frequency axis: 0 where the frequency is negative, 1 where it is zero, 2 where it
\* is positive.
C10_HilbertWeights ==
  Has(Hc)
  => /\ Len(f[Hc].data) = Len(f[Freq].data)
     /\ \A i \in 1..Len(f[Freq].data) :
          /\ f[Freq].data[i] < 0 => f[Hc].data[i] = 0
          /\ f[Freq].data[i] = 0 => f[Hc].data[i] = 1
          /\ f[Freq].data[i] > 0 => f[Hc].data[i] = 2

\* a filter over an axis with a negative, the zero and a positive frequency
C10_Witness ==
  /\ Has(Hc) /\ Ran("freq_filter_Hilbert_complex") /\ result = "ok"
  /\ \E i, j, k \in 1..Len(f[Freq].data) :
       f[Freq].data[i] < 0 /\ f[Freq].data[j] = 0 /\ f[Freq].data[k] > 0
Nearest(k, t, dt) == 2 * k * dt - dt <= 2 * t /\ 2 * t <= 2 * k * dt + dt

\* the time axis the stored phase is plotted against
PhaseAxis == f[Resolve(f[P].abscissa)].data

\* C13: fit_phase on a phase trace of n points uses n_per_chunk = round(t/dt) points
\* per chunk and stores exactly floor(n/n_per_chunk) time stamps and as many
\* frequency values; chunk k is computed from the phase samples (k-1) n_per_chunk ..
\* k n_per_chunk - 1 and from nothing else, so the trailing
\* n - n_per_chunk floor(n/n_per_chunk) samples influence no output value.
C13_ChunkCount ==
  (call.op = "fit_phase" /\ result = "ok")
  => \E npc \in 1..(call.t + 1) :
       /\ Nearest(npc, call.t, f[X].step)
       /\ LET n == Size(P)
              ntot == CHOOSE q \in 0..n : q * npc <= n /\ n < (q + 1) * npc
          IN /\ Len(f[FitX].data) = ntot
             /\ Len(f[FitY].data) = ntot
             /\ \A k \in 1..ntot :
                  /\ f[FitY].data[k].samples
                       = [i \in 1..npc |-> f[P].data[(k - 1) * npc + i]]
                  /\ Len(f[FitY].data[k].coef) = npc
                  /\ f[FitX].den = npc
                  /\ f[FitX].data[k]
                       = SumSeq([i \in 1..npc |-> PhaseAxis[(k - 1) * npc + i]])

\* five phase samples cut into two chunks of two: the last sample is left over
C13_Witness ==
  /\ call.op = "fit_phase" /\ result = "ok"
  /\ Size(P) = 5 /\ Len(f[FitY].data) = 2 /\ Len(f[FitY].data[1].samples) = 2

\* ---- C14
\* C14: for every chunk of n_per_chunk >= 2 samples the stored slope, computed with
\* the closed-form sums Sx = dt n(n-1)/2 and Sxx = dt^2 n(n-1)(2n-1)/6, is the
\* least-squares slope (n Sxy - Sx Sy)/(n Sxx - Sx^2) with Sx and Sxx summed directly
\* over the chunk's zero-shifted times; a phase linear in time with slope b gives b.
C14_SlopeIsLeastSquares ==
  (call.op = "fit_phase" /\ result = "ok")
  => \A k \in 1..Len(f[FitY].data) :
       LET s == f[FitY].data[k]
           n == Len(s.coef)
           xz == [i \in 1..n |-> PhaseAxis[(k - 1) * n + i] - PhaseAxis[(k - 1) * n + 1]]
           Sx == SumSeq(xz)
           Sxx == SumSeq([i \in 1..n |-> xz[i] * xz[i]])
       IN n >= 2
          => /\ s.den = n * Sxx - Sx * Sx
             /\ s.den > 0
             /\ \A i \in 1..n : s.coef[i] = n * xz[i] - Sx
             /\ SumSeq([i \in 1..n |-> s.coef[i] * xz[i]]) = s.den

\* a chunk of three samples on a trimmed time axis
C14_Witness ==
  /\ call.op = "fit_phase" /\ result = "ok"
  /\ Len(f[FitY].data) >= 1 /\ Len(f[FitY].data[1].coef) = 3
  /\ f[P].abscissa = "workup/time/x_rippleless"
\* ---- C15
\* C15: fit_amplitude fails, and stores no decay-fit result, whenever the optimizer
\* cannot reduce the objective from the initial parameter guess or the resulting
\* tau estimate is not finite.
C15_BadFitFails ==
  [][(call'.op = "fit_amplitude" /\ Has(A) /\ ~Has(FitExp)
      /\ call'.mode \in {"stalled", "stalled, no stderr",
                         "tau not finite", "tau not finite, no stderr"})
     => (result' # "ok" /\ f' = f)]_vars
\* ---- C16
\* the datasets of container g that hold numbers
Numeric(g) == [name \in {k \in DOMAIN g : "data" \in DOMAIN g[k]} |-> g[name].data]

C17_StoredIsFinal ==
  [][\A name \in DOMAIN f : name \in DOMAIN f' /\ f'[name] = f[name]]_vars

\* a second load_nparray, with other samples, fails on a container that holds
\* the datasets of every stage
C17_Witness ==
  /\ call.op = "load_nparray" /\ result = "NameExists"
  /\ Size(Y) = 3
  /\ \A name \in {X, Y, MaskBinarate, Window, MaskRippleless, Freq, FT, Hc, Bp, Z, P, A,
                  FitX, FitY, FitExpCalc} : Has(name)
\* ---- C18
\* C18: after any sequence of successful stage calls, in any order the calls are
\* accepted, each of the stored z, p and a has the same length as the time-axis
\* dataset named by its 'abscissa' attribute.
C18_LengthOfAbscissa ==
  \A name \in {Z, P, A} :
    Has(name) => /\ Has(Resolve(f[name].abscissa))
                 /\ Size(name) = Size(Resolve(f[name].abscissa))
\* ---- C19
\* the taper is as long as the array fft multiplies it with
TaperFits == Len(f[Window].data) = Len(MaskedSignal)

\* the call being made is fft, on a container with a signal and a taper
FftWithTaper == call'.op = "fft" /\ Has(Y) /\ Has(Window)

\* C19 as stated: whenever fft runs with a taper present, the taper's length
\* equals the length of the (masked) signal array it is multiplied with, whatever
\* the order in which time_mask_binarate and time_window_cyclicize were called.
C19_TaperAlwaysFits == [][FftWithTaper => TaperFits]_vars

\* C19, amended: whenever fft runs with a taper that time_window_cyclicize made
\* after time_mask_binarate, or with a taper and no binarate mask, the taper's
\* length equals the length of the (masked) signal array; with a taper made before
\* the mask the lengths may differ, and then fft fails and stores nothing.
C19_TaperFitsInOrder ==
  [][FftWithTaper =>
       /\ (f[Window].abscissa = "workup/time/x_binarated" \/ ~Has(MaskBinarate)) => TaperFits
       /\ ~TaperFits => (result' = "ValueError" /\ f' = f)]_vars

\* fft succeeded with a taper made for the masked signal, shorter than y
C19_Witness ==
  /\ call.op = "fft" /\ result = "ok"
  /\ Has(Window) /\ Has(MaskBinarate)
  /\ f[Window].abscissa = "workup/time/x_binarated"
  /\ Size(Window) < Size(Y)
\* ---- C20
\* an earlier call of the stage ran to its end: the dataset it writes last is stored
Succeeded(op) ==
  Has(CASE op = "load_nparray" -> Y
        [] op = "fft" -> FT
        [] op = "freq_filter_Hilbert_complex" -> Hc
        [] op = "ifft" -> A)

\* the stages whose earlier success a call of op needs
Prerequisites(op) ==
  CASE op = "fft" -> {"load_nparray"}
    [] op \in {"freq_filter_Hilbert_complex", "ifft"} -> {"fft"}
    [] op = "freq_filter_bp" -> {"fft", "freq_filter_Hilbert_complex"}
    [] op \in {"fit_phase", "fit_amplitude"} -> {"ifft"}
    [] OTHER -> {}

\* C20: in every sequence of stage calls on one Signal, a call succeeds only if its
\* prerequisites were stored by earlier successful calls: load before fft; fft
\* before freq_filter_Hilbert_complex and ifft; fft and freq_filter_Hilbert_complex
\* before freq_filter_bp; ifft before fit_phase and fit_amplitude.
C20_SucceedsAfterPrerequisites ==
  [][result' = "ok" => \A op \in Prerequisites(call'.op) : Succeeded(op)]_vars
\* ---- C21
\* C21: when the stored spectrum was produced by fft(psd=True), ifft fails and
\* stores no analytic signal, phase or amplitude, with or without a trim mask.
C21_IfftRefusesPowerSpectrum ==
  [][(call'.op = "ifft" /\ Has(FT) /\ ~IsLinear(f[FT])) => (result' # "ok" /\ f' = f)]_vars
\* ---- C22
\* the last call was a successful fft in linear mode
LinearFftDone == call.op = "fft" /\ result = "ok" /\ ~call.psd

\* C22: after an fft in linear mode that completes, the frequency axis it stored
\* has exactly m entries (m the length of the working array), is strictly
\* ascending with constant spacing 1/(m*dt), contains the zero frequency exactly
\* once, and every entry lies in [-1/(2dt), 1/(2dt)); the stored spectrum has the
\* same length m.
\* (Entry k of the axis stands for k / (m*dt) Hz, stored in kHz over den.)
C22_FrequencyAxis ==
  LinearFftDone =>
    LET fr == f[Freq].data
        m == Len(MaskedSignal)
    IN /\ Len(fr) = m
       /\ Size(FT) = m
       /\ f[Freq].den = 1000 * m * f[X].step
       /\ \A i \in 1..(m - 1) : fr[i + 1] - fr[i] = 1
       /\ f[Freq].step = 1
       /\ Cardinality({i \in 1..m : fr[i] = 0}) = 1
       /\ \A i \in 1..m : -m <= 2 * fr[i] /\ 2 * fr[i] < m

\* linear fft of the two samples a binarate mask keeps of three
C22_Witness ==
  LinearFftDone /\ Has(MaskBinarate) /\ Size(Y) = 3 /\ Size(Freq) = 2
\* ---- C23
\* C23: the center frequency fc that freq_filter_bp picks is never a negative
\* frequency: for every stored linear spectrum, an all-zero one included, fc is the
\* frequency of a bin with f >= 0 at which Hc(f)*|Spectrum(f)| is maximal.
C23_CenterNotNegative ==
  [][(call'.op = "freq_filter_bp" /\ result' = "ok" /\ IsLinear(f[FT]))
     => f[Freq].data[PeakIndex] >= 0]_vars
\* ---- C24
\* the stored weight w is cos(pi/2 * d/bw), for -bw <= d <= bw: cos(pi/2 * d/bw) is
\* sin(pi * (bw + d) / (2 bw)), and sin(pi * a/b) with 0 <= a <= b takes that value
\* exactly at a/b = (bw + d)/(2 bw) and at a/b = (bw - d)/(2 bw)
IsCos(w, d, bw) ==
  CASE w.kind = "int" /\ w.a = 0 -> Abs(d) = bw
    [] w.kind = "int" /\ w.a = 1 -> d = 0
    [] w.kind = "sin" -> \/ w.a * 2 * bw = (bw + d) * w.b
                         \/ w.a * 2 * bw = (bw - d) * w.b
    [] OTHER -> FALSE

\* C24: with style 'cosine', the weight freq_filter_bp stores at every bin with
\* |f - fc| <= bw equals cos(pi/2 * (f - fc)/bw) (so it is maximal at the bin of fc
\* and equal at bins equidistant from fc), also when the band [fc-bw, fc+bw]
\* extends past either end of the frequency axis.
C24_CosineWeights ==
  (call.op = "freq_filter_bp" /\ result = "ok" /\ call.mode = "cosine")
  => LET freq == f[Freq].data
         fc == freq[PeakIndex]
     IN \A k \in 1..Len(freq) :
          Abs(freq[k] - fc) <= call.t => IsCos(f[Bp].data[k], freq[k] - fc, call.t)
C26_UsageErrorStoresNothing ==
  [][(call'.op = "load_hdf5_general" /\ call'.mode = "neither")
     => (result' # "ok" /\ f' = f)]_vars
\* ---- C27
\* the true entries of mask form exactly one non-empty contiguous run
OneRun(mask) ==
  \E lo \in 1..Len(mask) : \E hi \in lo..Len(mask) :
    \A i \in 1..Len(mask) : mask[i] <=> (lo <= i /\ i <= hi)

\* C27: in every reachable state, each mask dataset present in the container
\* (binarate or rippleless) contains exactly one non-empty contiguous run of true
\* entries. (Stated for signals of at least two samples.)
C27_MaskIsOneRun ==
  (Has(Y) /\ Size(Y) >= 2)
  => \A name \in {MaskBinarate, MaskRippleless} : Has(name) => OneRun(f[name].data)
\* ---- C28
\* C28: for every dt_chunk_target for which fit_phase completes, the regression
\* denominator n_per_chunk*Sxx - Sx^2 is non-zero, so every stored frequency value
\* is a defined finite number; a chunk duration giving fewer than 2 points per
\* chunk makes fit_phase fail instead.
C28_DenominatorNotZero ==
  (call.op = "fit_phase" /\ result = "ok")
  => /\ f[FitX].den >= 2
     /\ \A k \in 1..Len(f[FitY].data) : f[FitY].data[k].den # 0
\* ---- C29
\* C29: time_mask_rippleless succeeds for every dead time td >= 0 with
\* 2*ceil(td/dt) < n_axis, including the case where exactly one sample survives
\* the trim (n_axis - 2*ww = 1). (Stated for signals of at least two samples.)
C29_NarrowTrimSucceeds ==
  (Ran("time_mask_rippleless") /\ Size(Y) >= 2 /\ 2 * WidthPts < Len(AxisData))
  => result = "ok"
\* ---- C30
\* C30: the datasets fit_amplitude stores satisfy y_resid[i] = y_calc[i] - a[i] for
\* every sample i, where a is the amplitude trace that was fitted: the stored
\* residual is the difference between fitted curve and data in amplitude units,
\* not rescaled by the pass-2 weight.
C30_ResidualIsDifference ==
  (call.op = "fit_amplitude" /\ result = "ok")
  => \A i \in 1..Size(A) :
       LET calc == f[FitExpCalc].data[i]
           resid == f[FitExpResid].data[i]
       IN /\ calc.y = f[A].data[i]
          /\ resid.num * calc.plus.den = calc.plus.num * resid.den
=============================================================================
